---------------------------- MODULE Spec2Model ----------------------------
(***************************************************************************)
(* Model of the substrate oracle pallet: the period handler                *)
(* (period_handler.rs), the median (external_value.rs), the per-oracle     *)
(* aggregator (oracle.rs) and the dispatchables of the module (lib.rs).    *)
(*                                                                         *)
(* Option<T> is modelled as a sequence: None is <<>>, Some(x) is <<x>>.    *)
(* A BTreeMap is a function whose domain is its key set; iteration is in   *)
(* ascending key order.                                                    *)
(***************************************************************************)
EXTENDS Integers, Sequences, FiniteSets, TLC

(***************************************************************************)
(* Bounds of the model.                                                    *)
(***************************************************************************)
\* accounts are 1..NumAccounts
NumAccounts == 2
\* the clock runs from 0 to MaxNow (Spec) or MaxNowCarry (SpecCarry)
MaxNow == 4
MaxNowCarry == 6
\* width in bits of the modelled ValueType (u32 / u128 in the source)
ValueBits == 1
\* the longest observation list a push carries
MaxPushLen == 2

Accounts == 1..NumAccounts
ValueModulus == 2 ^ ValueBits
Values == 0..(ValueModulus - 1)

None == <<>>
Some(x) == <<x>>

VARIABLES
    now,            \* timestamp::Module::get(), the host clock
    tables,         \* tablescore tables: TableId -> head (external collaborator)
    oracles,        \* storage map Oracles: OracleId -> Oracle
    next_oracle_id, \* storage value OracleIdSequence
    result,         \* outcome of the last dispatch (observation only)
    history         \* per oracle, what was pushed and calculated in the current
                    \* and the previous window (observation only)

vars == <<now, tables, oracles, next_oracle_id, result, history>>

(***************************************************************************)
(* period_handler.rs                                                       *)
(***************************************************************************)
\* new with the test `period >= aggregate_part`
PeriodHandler_new_or_equal(t, period, aggregate_part) ==
    IF period >= aggregate_part
    THEN Some([begin |-> t, period |-> period, aggregate_part |-> aggregate_part,
               last_sources_update |-> None])
    ELSE None

PeriodHandler_new(t, period, aggregate_part) ==
    IF period > aggregate_part
    THEN Some([begin |-> t, period |-> period, aggregate_part |-> aggregate_part,
               last_sources_update |-> None])
    ELSE None

get_period(h, t) == (t - h.begin) \div h.period

get_rest_of_period(h, t) ==
    LET next_period == get_period(h, t) + 1
        next_period_begin == h.begin + (next_period * h.period)
    IN  next_period_begin - t

\* get_part with the test `period - rest < aggregate_part`
get_part_exclusive(h, t) ==
    IF h.period - get_rest_of_period(h, t) < h.aggregate_part
    THEN "Aggregate"
    ELSE "Calculate"

get_part(h, t) ==
    IF h.period - get_rest_of_period(h, t) <= h.aggregate_part
    THEN "Aggregate"
    ELSE "Calculate"

is_can_aggregate(h, t) == get_part(h, t) = "Aggregate"

\* the match arm Ordering::Less => unreachable!() of is_can_calculate
is_can_calculate_unreachable(h, last_update_time, t) ==
    /\ last_update_time # None
    /\ get_period(h, t) < get_period(h, last_update_time[1])

\* is_can_calculate without the test of the part of the last publication in
\* the arm Ordering::Equal
is_can_calculate_same_window(h, last_update_time, t) ==
    LET current_part == get_part(h, t)
    IN  IF last_update_time # None
        THEN LET last_changed == last_update_time[1]
                 last_part == get_part(h, last_changed)
                 current_period == get_period(h, t)
                 last_period == get_period(h, last_changed)
             IN  IF current_period = last_period
                 THEN current_part = "Calculate"
                 ELSE IF current_part = "Calculate" THEN TRUE
                 ELSE IF last_part = "Aggregate" THEN TRUE
                 ELSE (current_period - 1) # last_period
        ELSE IF get_period(h, t) = 0
             THEN current_part = "Calculate"
             ELSE TRUE

\* is_can_calculate whose arm Ordering::Greater is true for every pair of parts
is_can_calculate_every_new_window(h, last_update_time, t) ==
    LET current_part == get_part(h, t)
    IN  IF last_update_time # None
        THEN LET last_part == get_part(h, last_update_time[1])
                 current_period == get_period(h, t)
                 last_period == get_period(h, last_update_time[1])
             IN  IF current_period = last_period
                 THEN last_part = "Aggregate" /\ current_part = "Calculate"
                 ELSE TRUE
        ELSE IF get_period(h, t) = 0
             THEN current_part = "Calculate"
             ELSE TRUE

is_can_calculate(h, last_update_time, t) ==
    LET current_part == get_part(h, t)
    IN  IF last_update_time # None
        THEN LET last_changed == last_update_time[1]
                 last_part == get_part(h, last_changed)
                 current_period == get_period(h, t)
                 last_period == get_period(h, last_changed)
             IN  IF current_period = last_period
                 THEN last_part = "Aggregate" /\ current_part = "Calculate"
                 ELSE IF current_part = "Calculate" THEN TRUE
                 ELSE IF last_part = "Aggregate" THEN TRUE
                 ELSE (current_period - 1) # last_period
        ELSE IF get_period(h, t) = 0
             THEN current_part = "Calculate"
             ELSE TRUE

set_sources_updated(h, t) == [h EXCEPT !.last_sources_update = Some(t)]

\* is_sources_update_needed without the match on last_sources_update
is_sources_update_needed_in_every_window(h, t) == is_can_aggregate(h, t)

is_sources_update_needed(h, t) ==
    /\ is_can_aggregate(h, t)
    /\ \/ h.last_sources_update = None
       \/ /\ h.last_sources_update # None
          /\ get_period(h, h.last_sources_update[1]) < get_period(h, t)

(***************************************************************************)
(* external_value.rs                                                       *)
(***************************************************************************)
ExternalValue_default == [value |-> None, last_changed |-> None]

\* update that leaves last_changed as it was
ExternalValue_update_value_only(ext, value, t) ==
    [value |-> Some(value), last_changed |-> ext.last_changed]

\* update that dates the value one moment after t
ExternalValue_update_next_moment(ext, value, t) ==
    [value |-> Some(value), last_changed |-> Some(t + 1)]

ExternalValue_update(ext, value, t) == [value |-> Some(value), last_changed |-> Some(t)]

ExternalValue_clean(ext) == [value |-> None, last_changed |-> None]

is_clean(ext) == ext.last_changed = None /\ ext.value = None

\* values.sort()
sort(values) == SortSeq(values, LAMBDA a, b: a < b)

\* Option<Median<T>>: None, Some(Median::Value(v)) or Some(Median::Pair(l, r))
get_median(vals) ==
    LET values == sort(vals)
        len == Len(values)
        middle == len \div 2
    IN  IF len = 0 \/ len = 1 THEN None
        ELSE IF len % 2 = 0
             THEN Some([kind |-> "Pair", left |-> values[middle], right |-> values[middle + 1]])
             ELSE Some([kind |-> "Value", value |-> values[middle + 1]])


(***************************************************************************)
(* oracle.rs                                                               *)
(***************************************************************************)
\* `len as u8` wraps modulo 256
U8Modulus == 256

Ok(v) == [ok |-> TRUE, val |-> v, err |-> <<"Ok">>]
Err(e) == [ok |-> FALSE, val |-> None, err |-> e]

\* the keys of a BTreeMap in iteration (ascending) order
RECURSIVE keys_in_order(_)
keys_in_order(S) ==
    IF S = {} THEN <<>>
    ELSE LET k == CHOOSE x \in S : \A y \in S : x <= y
         IN  <<k>> \o keys_in_order(S \ {k})

\* iter().filter_map(f).collect(): f yields an Option per key
filter_map(keys, f(_)) ==
    LET RECURSIVE go(_)
        go(ks) == IF ks = <<>> THEN <<>> ELSE f(Head(ks)) \o go(Tail(ks))
    IN  go(keys)

\* repeat_with(ExternalValue::default).take(n).collect()
default_values(n) == [i \in 1..n |-> ExternalValue_default]

Oracle_new(name, table, period_handler, source_limit, assets_name) ==
    [name |-> name,
     table |-> table,
     period_handler |-> period_handler,
     source_limit |-> source_limit,
     sources |-> <<>>,
     values |-> default_values(Len(assets_name)),
     names |-> assets_name,
     last_push_period |-> None,
     prev_period_source |-> <<>>]

get_values_count(o) == Len(o.names)

is_sources_empty(o) == DOMAIN o.sources = {}

\* Result<(), OracleError>; value_id is 0-based as in the source
is_value_id_correct(o, value_id) ==
    IF value_id < get_values_count(o) THEN Ok(None) ELSE Err(<<"WrongValueId", value_id>>)

is_sources_enough(o) == (Cardinality(DOMAIN o.sources) % U8Modulus) >= o.source_limit

is_allow_calculate(o, value_id, t) ==
    LET c == is_value_id_correct(o, value_id)
    IN  IF ~c.ok THEN c
        ELSE Ok(is_can_calculate(o.period_handler, o.values[value_id + 1].last_changed, t))

add_assets(o, name) ==
    [o EXCEPT !.names = Append(@, name),
              !.values = Append(@, ExternalValue_default)]

\* update_sources that adds the new sources to the old ones
update_sources_keep_old(o, srcs) ==
    LET default == default_values(get_values_count(o))
        new_sources == [account \in srcs \cup DOMAIN o.sources |->
                            IF account \in DOMAIN o.sources
                            THEN o.sources[account]
                            ELSE default]
        o2 == [o EXCEPT !.sources = new_sources]
    IN  [oracle |-> o2,
         res |-> IF is_sources_enough(o2)
                 THEN Ok(DOMAIN o2.sources)
                 ELSE Err(<<"FewSources", o2.source_limit, Cardinality(DOMAIN o2.sources)>>)]

\* update_sources that gives every source the default buffer
update_sources_reset(o, srcs) ==
    LET default == default_values(get_values_count(o))
        o2 == [o EXCEPT !.sources = [account \in srcs |-> default]]
    IN  [oracle |-> o2,
         res |-> IF is_sources_enough(o2)
                 THEN Ok(DOMAIN o2.sources)
                 ELSE Err(<<"FewSources", o2.source_limit, Cardinality(DOMAIN o2.sources)>>)]

\* returns the oracle after the call and the call's Result
update_sources(o, srcs) ==
    LET default == default_values(get_values_count(o))
        new_sources == [account \in srcs |->
                            IF account \in DOMAIN o.sources
                            THEN o.sources[account]
                            ELSE default]
        o2 == [o EXCEPT !.sources = new_sources]
    IN  [oracle |-> o2,
         res |-> IF is_sources_enough(o2)
                 THEN Ok(DOMAIN o2.sources)
                 ELSE Err(<<"FewSources", o2.source_limit, Cardinality(DOMAIN o2.sources)>>)]

store_pushed_data(o, period_for_store) ==
    LET is_need_store_flags ==
            [i \in 1..Len(o.values) |->
                IF o.values[i].last_changed # None
                THEN get_period(o.period_handler, o.values[i].last_changed[1]) # period_for_store
                ELSE TRUE]
        n(source) == IF Len(o.sources[source]) < Len(is_need_store_flags)
                     THEN Len(o.sources[source]) ELSE Len(is_need_store_flags)
    IN  [o EXCEPT !.prev_period_source =
            [source \in DOMAIN o.sources |->
                [i \in 1..n(source) |->
                    IF is_need_store_flags[i] THEN Some(o.sources[source][i]) ELSE None]]]

\* clear_pushed_data that cleans the published values as well
clear_pushed_data_and_values(o) ==
    [o EXCEPT !.sources =
                [source \in DOMAIN o.sources |->
                    [i \in 1..Len(o.sources[source]) |->
                        ExternalValue_clean(o.sources[source][i])]],
              !.values = [i \in 1..Len(o.values) |-> ExternalValue_clean(o.values[i])]]

\* clear_pushed_data that cleans nothing
clear_pushed_data_skipped(o) == o

clear_pushed_data(o) ==
    [o EXCEPT !.sources =
        [source \in DOMAIN o.sources |->
            [i \in 1..Len(o.sources[source]) |-> ExternalValue_clean(o.sources[source][i])]]]

\* push_values that stores and clears on every push
push_values_always_clear(o, source, t, new_values) ==
    LET current == get_period(o.period_handler, t)
        o1 == clear_pushed_data(store_pushed_data(o, current))
        o2 == [o1 EXCEPT !.last_push_period = Some(current)]
    IN  IF source \in DOMAIN o2.sources
        THEN [oracle |-> [o2 EXCEPT !.sources[source] =
                            [i \in 1..Len(@) |->
                                IF i <= Len(new_values)
                                THEN ExternalValue_update(@[i], new_values[i], t)
                                ELSE @[i]]],
              res |-> Ok(None)]
        ELSE [oracle |-> o2, res |-> Err(<<"SourcePermissionDenied">>)]

\* push_values without store_pushed_data and clear_pushed_data on the first
\* push of a period
push_values_without_clear(o, source, t, new_values) ==
    LET current == get_period(o.period_handler, t)
        o2 == [o EXCEPT !.last_push_period = Some(current)]
    IN  IF source \in DOMAIN o2.sources
        THEN [oracle |-> [o2 EXCEPT !.sources[source] =
                            [i \in 1..Len(@) |->
                                IF i <= Len(new_values)
                                THEN ExternalValue_update(@[i], new_values[i], t)
                                ELSE @[i]]],
              res |-> Ok(None)]
        ELSE [oracle |-> o2, res |-> Err(<<"SourcePermissionDenied">>)]

push_values(o, source, t, new_values) ==
    LET current == get_period(o.period_handler, t)
        o1 == IF o.last_push_period # None /\ o.last_push_period[1] # current
              THEN clear_pushed_data(store_pushed_data(o, o.last_push_period[1]))
              ELSE o
        o2 == [o1 EXCEPT !.last_push_period = Some(current)]
    IN  IF source \in DOMAIN o2.sources
        THEN [oracle |-> [o2 EXCEPT !.sources[source] =
                            [i \in 1..Len(@) |->
                                IF i <= Len(new_values)
                                THEN ExternalValue_update(@[i], new_values[i], t)
                                ELSE @[i]]],
              res |-> Ok(None)]
        ELSE [oracle |-> o2, res |-> Err(<<"SourcePermissionDenied">>)]

\* Result<Vec<&ValueType>, OracleError>
get_actual_value_variants(o, ex_asset_id, t) ==
    LET c == is_value_id_correct(o, ex_asset_id)
        from_prev(k) ==
            LET assets == o.prev_period_source[k]
            IN  IF ex_asset_id + 1 <= Len(assets) /\ assets[ex_asset_id + 1] # None
                THEN assets[ex_asset_id + 1][1].value
                ELSE None
        from_sources(k) ==
            LET assets == o.sources[k]
            IN  IF ex_asset_id + 1 <= Len(assets)
                THEN assets[ex_asset_id + 1].value
                ELSE None
    IN  IF ~c.ok THEN c
        ELSE IF get_part(o.period_handler, t) = "Aggregate"
             THEN Ok(filter_map(keys_in_order(DOMAIN o.prev_period_source), from_prev))
             ELSE Ok(filter_map(keys_in_order(DOMAIN o.sources), from_sources))

pull_value(o, ex_asset_id) ==
    LET c == is_value_id_correct(o, ex_asset_id)
    IN  IF ~c.ok THEN c
        ELSE LET v == o.values[ex_asset_id + 1]
             IN  IF v.value # None /\ v.last_changed # None
                 THEN Ok(<<v.value[1], v.last_changed[1]>>)
                 ELSE Err(<<"UncalculatedValue", ex_asset_id>>)

\* `*left + *right` in ValueType: the sum wraps modulo 2^ValueBits
wrapping_add(left, right) == (left + right) % ValueModulus

\* the match on get_median(values) of calculate_value
median_to_value(values) ==
    LET m == get_median(values)
    IN  IF m = None THEN Err(<<"CalculationError">>)
        ELSE IF m[1].kind = "Value" THEN Ok(m[1].value)
        ELSE LET sum == wrapping_add(m[1].left, m[1].right)
                 div == 1 + 1
             IN  Ok(sum \div div)

\* calculate_value without the test of last_push_period
calculate_value_without_push_test(o, value_id, t) ==
    IF ~is_sources_enough(o)
    THEN [oracle |-> o,
          res |-> Err(<<"FewSources", o.source_limit, get_values_count(o)>>)]
    ELSE LET values == get_actual_value_variants(o, value_id, t)
         IN  IF ~values.ok THEN [oracle |-> o, res |-> values]
             ELSE IF o.source_limit > Len(values.val)
             THEN [oracle |-> o,
                   res |-> Err(<<"FewPushedValue", o.source_limit, Len(values.val)>>)]
             ELSE LET r == median_to_value(values.val)
                  IN  IF r.ok
                      THEN [oracle |-> [o EXCEPT !.values[value_id + 1] =
                                            ExternalValue_update(@, r.val, t)],
                            res |-> r]
                      ELSE [oracle |-> o, res |-> r]

\* calculate_value with the quorum test `source_limit >= values.len()`
calculate_value_strict_quorum(o, value_id, t) ==
    IF ~is_sources_enough(o)
    THEN [oracle |-> o,
          res |-> Err(<<"FewSources", o.source_limit, get_values_count(o)>>)]
    ELSE IF \/ o.last_push_period = None
            \/ /\ o.last_push_period # None
               /\ get_period(o.period_handler, t) # o.last_push_period[1]
    THEN [oracle |-> clear_pushed_data(o), res |-> Err(<<"EmptyPushedValueInPeriod">>)]
    ELSE LET values == get_actual_value_variants(o, value_id, t)
         IN  IF ~values.ok THEN [oracle |-> o, res |-> values]
             ELSE IF o.source_limit >= Len(values.val)
             THEN [oracle |-> o,
                   res |-> Err(<<"FewPushedValue", o.source_limit, Len(values.val)>>)]
             ELSE LET r == median_to_value(values.val)
                  IN  IF r.ok
                      THEN [oracle |-> [o EXCEPT !.values[value_id + 1] =
                                            ExternalValue_update(@, r.val, t)],
                            res |-> r]
                      ELSE [oracle |-> o, res |-> r]

calculate_value(o, value_id, t) ==
    IF ~is_sources_enough(o)
    THEN [oracle |-> o,
          res |-> Err(<<"FewSources", o.source_limit, get_values_count(o)>>)]
    ELSE IF \/ o.last_push_period = None
            \/ /\ o.last_push_period # None
               /\ get_period(o.period_handler, t) # o.last_push_period[1]
    THEN [oracle |-> clear_pushed_data(o), res |-> Err(<<"EmptyPushedValueInPeriod">>)]
    ELSE LET values == get_actual_value_variants(o, value_id, t)
         IN  IF ~values.ok THEN [oracle |-> o, res |-> values]
             ELSE IF o.source_limit > Len(values.val)
             THEN [oracle |-> o,
                   res |-> Err(<<"FewPushedValue", o.source_limit, Len(values.val)>>)]
             ELSE LET r == median_to_value(values.val)
                  IN  IF r.ok
                      THEN [oracle |-> [o EXCEPT !.values[value_id + 1] =
                                            ExternalValue_update(@, r.val, t)],
                            res |-> r]
                      ELSE [oracle |-> o, res |-> r]

(***************************************************************************)
(* lib.rs                                                                  *)
(***************************************************************************)
\* the largest value of the modelled OracleId type (u32 in mock.rs)
MaxOracleId == 2
\* Spec creates at most MaxOracles oracles
MaxOracles == 1
\* create_oracle is dispatched at moments 0..MaxBegin
MaxBegin == 0
\* tablescore creates at most MaxTables tables
MaxTables == 3
\* the period create_oracle is given; the aggregate part it is given is 0
\* (one Aggregate moment a window) or Period (refused)
Period == 2
\* create_oracle is given 1..MaxSlots value names
MaxSlots == 1

\* impl From<InternalError> for Error<T>
From(error) ==
    CASE error[1] = "FewSources" -> "NotEnoughSources"
      [] error[1] = "FewPushedValue" -> "NotEnoughValues"
      [] error[1] = "EmptyPushedValueInPeriod" -> "NotEnoughValues"
      [] error[1] = "WrongValuesCount" -> "WrongValuesCount"
      [] error[1] = "WrongValueId" -> "WrongValueId"
      [] error[1] = "UncalculatedValue" -> "NotCalculatedValue"
      [] error[1] = "SourcePermissionDenied" -> "AccountPermissionDenied"
      [] error[1] = "CalculationError" -> "NoneValue"

\* OracleIdSequence::mutate(|id| id.checked_add(1) ...): the sequence after the
\* call and the call's Result
\* get_next_oracle_id that leaves the sequence where it is
get_next_oracle_id_without_increment(id) ==
    IF id + 1 <= MaxOracleId
    THEN [next |-> id, res |-> Ok(id)]
    ELSE [next |-> id, res |-> Err(<<"OracleIdOverflow">>)]

get_next_oracle_id(id) ==
    IF id + 1 <= MaxOracleId
    THEN [next |-> id + 1, res |-> Ok(id)]
    ELSE [next |-> id, res |-> Err(<<"OracleIdOverflow">>)]

\* Oracles::mutate(oracle_id, ..): the closure's changes are written back
\* whatever it returns
update_accounts(store, heads, oracle_id) ==
    LET r == update_sources(store[oracle_id], heads[store[oracle_id].table])
    IN  [oracles |-> [store EXCEPT ![oracle_id] = r.oracle], res |-> r.res]

\* Module::get_external_value
get_external_value(store, oracle_id, value_id) ==
    LET values == store[oracle_id].values
    IN  IF value_id + 1 > Len(values) THEN Err(<<"WrongValueId">>)
        ELSE LET v == values[value_id + 1]
             IN  IF v.value # None /\ v.last_changed # None
                 THEN Ok(<<v.value[1], v.last_changed[1]>>)
                 ELSE Err(<<"NotCalculatedValue">>)

\* Module::push without the test of is_allow_aggregate
push_any_time(store, heads, t, who, oracle_id, values) ==
    LET oracle == store[oracle_id]
        update == is_sources_empty(oracle)
                    \/ is_sources_update_needed(oracle.period_handler, t)
        upd == IF update THEN update_accounts(store, heads, oracle_id)
               ELSE [oracles |-> store, res |-> Ok(None)]
    IN  IF ~upd.res.ok
        THEN [oracles |-> upd.oracles, err |-> From(upd.res.err), internal |-> upd.res.err]
        ELSE LET r == push_values(upd.oracles[oracle_id], who, t, values)
                 store2 == [upd.oracles EXCEPT ![oracle_id] = r.oracle]
             IN  IF r.res.ok
                 THEN [oracles |-> store2, err |-> "Ok", internal |-> <<"Ok">>]
                 ELSE [oracles |-> store2, err |-> From(r.res.err), internal |-> r.res.err]

\* the body of Module::push: the storage after the dispatch, its error
\* ("Ok" on success) and the aggregator's error behind it
push(store, heads, t, who, oracle_id, values) ==
    LET oracle == store[oracle_id]
        update == is_sources_empty(oracle)
                    \/ is_sources_update_needed(oracle.period_handler, t)
        upd == IF update THEN update_accounts(store, heads, oracle_id)
               ELSE [oracles |-> store, res |-> Ok(None)]
    IN  IF ~upd.res.ok
        THEN [oracles |-> upd.oracles, err |-> From(upd.res.err), internal |-> upd.res.err]
        ELSE IF ~is_can_aggregate(oracle.period_handler, t)
        THEN [oracles |-> upd.oracles, err |-> "NotAggregationTime", internal |-> <<"Ok">>]
        ELSE LET r == push_values(upd.oracles[oracle_id], who, t, values)
                 store2 == [upd.oracles EXCEPT ![oracle_id] = r.oracle]
             IN  IF r.res.ok
                 THEN [oracles |-> store2, err |-> "Ok", internal |-> <<"Ok">>]
                 ELSE [oracles |-> store2, err |-> From(r.res.err), internal |-> r.res.err]

\* the body of Module::calculate, as push above, with the calculated value
calculate(store, heads, t, oracle_id, value_id) ==
    LET oracle == store[oracle_id]
        upd == IF is_sources_update_needed(oracle.period_handler, t)
               THEN update_accounts(store, heads, oracle_id)
               ELSE [oracles |-> store, res |-> Ok(None)]
        allow == is_allow_calculate(oracle, value_id, t)
    IN  IF ~upd.res.ok
        THEN [oracles |-> upd.oracles, err |-> From(upd.res.err),
              internal |-> upd.res.err, value |-> None]
        ELSE IF ~allow.ok
        THEN [oracles |-> upd.oracles, err |-> From(allow.err),
              internal |-> allow.err, value |-> None]
        ELSE IF ~allow.val
        THEN [oracles |-> upd.oracles, err |-> "NotCalculateTime",
              internal |-> <<"Ok">>, value |-> None]
        ELSE LET r == calculate_value(upd.oracles[oracle_id], value_id, t)
                 store2 == [upd.oracles EXCEPT ![oracle_id] = r.oracle]
             IN  IF r.res.ok
                 THEN [oracles |-> store2, err |-> "Ok",
                       internal |-> <<"Ok">>, value |-> Some(r.res.val)]
                 ELSE [oracles |-> store2, err |-> From(r.res.err),
                       internal |-> r.res.err, value |-> None]

(***************************************************************************)
(* The state machine: one action per dispatchable, the host clock and the  *)
(* votes that change a table's head.                                       *)
(***************************************************************************)
NoResult ==
    [op |-> "none", who |-> 0, id |-> 0, slot |-> 0, len |-> 0,
     err |-> "Ok", internal |-> <<"Ok">>, value |-> None, last |-> None,
     member |-> FALSE, period |-> 0, aggregate_part |-> 0, moment |-> 0]

\* observation lists of push: every list of at most MaxPushLen values
PushInputs == UNION {[1..n -> Values] : n \in 0..MaxPushLen}

\* history of one window: did a push land, the observations that landed (by
\* reporters still in the roster), was calculate dispatched, the slots
\* published in the Calculate part
NoWindow == [pushed |-> FALSE, obs |-> <<>>, calc |-> FALSE, published |-> {}]

NoHistory == [win |-> -1, cur |-> NoWindow, prev |-> NoWindow]

\* the history as seen from window w
Shift(h, w) ==
    IF w = h.win THEN h
    ELSE [win |-> w, cur |-> NoWindow, prev |-> IF w = h.win + 1 THEN h.cur ELSE NoWindow]

\* only reporters that stay in the roster keep their observations
Keep(window, roster) ==
    [window EXCEPT !.obs = [r \in (DOMAIN @) \cap roster |-> @[r]]]

\* the history after a dispatch on oracle o at moment t that made it o2
Record(h, o, o2, t, res, values) ==
    LET w == get_period(o.period_handler, t)
        h1 == Shift(h, w)
        n == Len(o.values)
        old(r) == IF r \in DOMAIN h1.cur.obs THEN h1.cur.obs[r] ELSE [i \in 1..n |-> None]
        cur == CASE res.op = "push" /\ res.err = "Ok" ->
                        [h1.cur EXCEPT !.pushed = TRUE,
                                       !.obs = (res.who :>
                                                  [i \in 1..n |-> IF i <= Len(values)
                                                                  THEN Some(values[i])
                                                                  ELSE old(res.who)[i]])
                                               @@ @]
                  [] res.op = "calculate" ->
                        [h1.cur EXCEPT !.calc = TRUE,
                                       !.published =
                                            IF res.err = "Ok"
                                               /\ get_part(o.period_handler, t) = "Calculate"
                                            THEN @ \cup {res.slot} ELSE @]
                  [] OTHER -> h1.cur
    IN  [win |-> w,
         cur |-> Keep(cur, DOMAIN o2.sources),
         prev |-> Keep(h1.prev, DOMAIN o2.sources)]

Init ==
    /\ now = 0
    /\ tables = <<>>
    /\ oracles = <<>>
    /\ next_oracle_id = 0
    /\ result = NoResult
    /\ history = [id \in 0..MaxOracleId |-> NoHistory]

\* the host clock: timestamps never decrease
Tick(max) ==
    /\ now < max
    /\ now' = now + 1
    /\ result' = NoResult
    /\ UNCHANGED <<tables, oracles, next_oracle_id, history>>

\* tablescore votes change the head of the table of an oracle
Vote(table, new_head) ==
    /\ table \in DOMAIN tables
    /\ \E id \in DOMAIN oracles : oracles[id].table = table
    /\ new_head # tables[table]
    /\ tables' = [tables EXCEPT ![table] = new_head]
    /\ result' = NoResult
    /\ UNCHANGED <<now, oracles, next_oracle_id, history>>

CreateOracle(who, source_limit, period, aggregate_period, values_names) ==
    LET handler == PeriodHandler_new(now, period, aggregate_period)
        table == Len(tables) + 1
        id == get_next_oracle_id(next_oracle_id)
        res == [NoResult EXCEPT !.op = "create_oracle", !.period = period,
                                !.aggregate_part = aggregate_period]
    IN  /\ now <= MaxBegin
        /\ Len(tables) < MaxTables
        /\ IF handler = None
           THEN /\ result' = [res EXCEPT !.err = "WrongPeriods"]
                /\ UNCHANGED <<tables, oracles, next_oracle_id, history>>
           ELSE \* tablescore::create: a new table, its head still empty
                /\ tables' = Append(tables, {})
                /\ next_oracle_id' = id.next
                /\ IF ~id.res.ok
                   THEN /\ result' = [res EXCEPT !.err = "OracleIdOverflow"]
                        /\ UNCHANGED oracles
                   ELSE /\ result' = [res EXCEPT !.id = id.res.val]
                        /\ oracles' = (id.res.val :> Oracle_new("test", table, handler[1],
                                                      source_limit, values_names))
                                        @@ oracles
                /\ UNCHANGED history
        /\ UNCHANGED now

Push(who, oracle_id, values) ==
    /\ oracle_id \in DOMAIN oracles
    /\ LET r == push(oracles, tables, now, who, oracle_id, values)
           res == [NoResult EXCEPT !.op = "push", !.who = who, !.id = oracle_id,
                                   !.len = Len(values), !.err = r.err,
                                   !.internal = r.internal,
                                   !.member = who \in DOMAIN oracles[oracle_id].sources]
       IN  /\ oracles' = r.oracles
           /\ result' = res
    /\ UNCHANGED <<now, tables, next_oracle_id>>

Calculate(oracle_id, value_id) ==
    /\ oracle_id \in DOMAIN oracles
    /\ LET r == calculate(oracles, tables, now, oracle_id, value_id)
           res == [NoResult EXCEPT !.op = "calculate", !.id = oracle_id,
                                   !.slot = value_id, !.err = r.err,
                                   !.internal = r.internal, !.value = r.value,
                                   !.last = IF value_id < Len(oracles[oracle_id].values)
                                            THEN oracles[oracle_id].values[value_id + 1].last_changed
                                            ELSE None]
       IN  /\ oracles' = r.oracles
           /\ result' = res
    /\ UNCHANGED <<now, tables, next_oracle_id>>

\* the dispatch of this step on oracle_id enters the history
Observed(oracle_id, values) ==
    history' = [history EXCEPT ![oracle_id] =
                    Record(@, oracles[oracle_id], oracles'[oracle_id], now, result', values)]

Next ==
    \/ Tick(MaxNow)
    \/ \E table \in DOMAIN tables, new_head \in SUBSET Accounts : Vote(table, new_head)
    \/ \E who \in Accounts, source_limit \in 0..NumAccounts,
          aggregate_period \in {0, Period}, n \in 1..MaxSlots :
            /\ next_oracle_id < MaxOracles
            /\ CreateOracle(who, source_limit, Period, aggregate_period, [i \in 1..n |-> i])
    \/ \E who \in Accounts, oracle_id \in DOMAIN oracles, values \in PushInputs :
            Push(who, oracle_id, values) /\ UNCHANGED history
    \/ \E oracle_id \in DOMAIN oracles, value_id \in 0..MaxSlots :
            Calculate(oracle_id, value_id) /\ UNCHANGED history

\* every oracle the module creates from these inputs (one Aggregate and
\* Period - 1 Calculate moments a window), under every vote, push and calculate
Spec == Init /\ [][Next]_vars

\* an oracle of NumAccounts sources, two Aggregate moments and one Calculate
\* moment a window, whose table head is voted to all accounts, pushed to with
\* lists of the right length, with the history of its windows
NextCarry ==
    \/ Tick(MaxNowCarry)
    \/ \E table \in DOMAIN tables : Vote(table, Accounts)
    \/ \E who \in Accounts, n \in 1..MaxSlots :
            /\ next_oracle_id < MaxOracles
            /\ CreateOracle(who, NumAccounts, Period + 1, 1, [i \in 1..n |-> i])
    \/ \E who \in Accounts, oracle_id \in DOMAIN oracles, values \in PushInputs :
            /\ Len(values) = Len(oracles[oracle_id].names)
            /\ Push(who, oracle_id, values) /\ Observed(oracle_id, values)
    \/ \E oracle_id \in DOMAIN oracles, value_id \in 0..(MaxSlots - 1) :
            Calculate(oracle_id, value_id) /\ Observed(oracle_id, <<>>)

SpecCarry == Init /\ [][NextCarry]_vars

(***************************************************************************)
(* The period handler on its own: every handler new accepts from small     *)
(* periods, queried at every moment from its begin on.                     *)
(***************************************************************************)
\* new is given moments 0..MaxHandlerBegin and periods and aggregate parts
\* 0..MaxPeriod; the handler is queried at moments up to MaxMoment
MaxHandlerBegin == 1
MaxPeriod == 3
MaxMoment == 7

\* PeriodHandler::new(t, period, aggregate_part); the handler is kept in an
\* oracle of no sources
HandlerNew(t, period, aggregate_part) ==
    LET handler == PeriodHandler_new(t, period, aggregate_part)
        res == [NoResult EXCEPT !.op = "new", !.period = period,
                                !.aggregate_part = aggregate_part]
    IN  /\ oracles = <<>>
        /\ now' = t
        /\ IF handler = None
           THEN /\ result' = [res EXCEPT !.err = "Err"]
                /\ UNCHANGED oracles
           ELSE /\ result' = res
                /\ oracles' = (0 :> Oracle_new("test", 1, handler[1], 0, <<1>>))
        /\ UNCHANGED <<tables, next_oracle_id, history>>

\* get_part(t), is_can_aggregate(t) and is_can_calculate(last_update_time, t)
\* of the handler; the arm unreachable!() of is_can_calculate panics
HandlerQuery(last_update_time, t) ==
    /\ 0 \in DOMAIN oracles
    /\ LET h == oracles[0].period_handler
           panics == is_can_calculate_unreachable(h, last_update_time, t)
       IN  /\ t >= h.begin
           /\ last_update_time # None => last_update_time[1] >= h.begin
           /\ result' = [NoResult EXCEPT
                            !.op = "is_can_calculate",
                            !.last = last_update_time,
                            !.internal = <<get_part(h, t)>>,
                            !.member = is_can_aggregate(h, t),
                            !.err = IF panics THEN "panic" ELSE "Ok",
                            !.value = IF panics THEN None
                                      ELSE Some(is_can_calculate(h, last_update_time, t))]
    /\ now' = t
    /\ UNCHANGED <<tables, oracles, next_oracle_id, history>>

NextHandler ==
    \/ \E t \in 0..MaxHandlerBegin, period \in 0..MaxPeriod, aggregate_part \in 0..MaxPeriod :
            HandlerNew(t, period, aggregate_part)
    \/ \E t \in 0..MaxMoment, last \in {None} \cup {Some(l) : l \in 0..MaxMoment} :
            HandlerQuery(last, t)

SpecHandler == Init /\ [][NextHandler]_vars

(***************************************************************************)
(* The mark of the last update of the sources: every handler new accepts,  *)
(* marked and asked at every moment from its begin on.                     *)
(***************************************************************************)
SetSourcesUpdated(t) ==
    /\ 0 \in DOMAIN oracles
    /\ t >= oracles[0].period_handler.begin
    /\ oracles' = [oracles EXCEPT ![0].period_handler = set_sources_updated(@, t)]
    /\ result' = [NoResult EXCEPT !.op = "set_sources_updated", !.moment = t]
    /\ now' = t
    /\ UNCHANGED <<tables, next_oracle_id, history>>

IsSourcesUpdateNeeded(t) ==
    /\ 0 \in DOMAIN oracles
    /\ LET h == oracles[0].period_handler
       IN  /\ t >= h.begin
           /\ result' = [NoResult EXCEPT
                            !.op = "is_sources_update_needed",
                            !.moment = t,
                            !.internal = <<get_part(h, t)>>,
                            !.last = h.last_sources_update,
                            !.member = is_sources_update_needed(h, t)]
    /\ now' = t
    /\ UNCHANGED <<tables, oracles, next_oracle_id, history>>

NextMark ==
    \/ \E t \in 0..MaxHandlerBegin, period \in 0..MaxPeriod, aggregate_part \in 0..MaxPeriod :
            HandlerNew(t, period, aggregate_part)
    \/ \E t \in 0..MaxMoment : SetSourcesUpdated(t)
    \/ \E t \in 0..MaxMoment : IsSourcesUpdateNeeded(t)

SpecMark == Init /\ [][NextMark]_vars

(***************************************************************************)
(* The parts of a window: one oracle of one source created from every      *)
(* period and aggregate part up to MaxPeriod, its head voted to all        *)
(* accounts, pushed to at every moment up to MaxNowParts.                  *)
(***************************************************************************)
MaxNowParts == 6

NextParts ==
    \/ Tick(MaxNowParts)
    \/ \E table \in DOMAIN tables : Vote(table, Accounts)
    \/ \E who \in Accounts, period \in 0..MaxPeriod, aggregate_period \in 0..MaxPeriod :
            /\ next_oracle_id < MaxOracles
            /\ CreateOracle(who, 1, period, aggregate_period, <<1>>)
    \/ \E who \in Accounts, oracle_id \in DOMAIN oracles, values \in PushInputs :
            /\ Len(values) = Len(oracles[oracle_id].names)
            /\ Push(who, oracle_id, values) /\ UNCHANGED history

SpecParts == Init /\ [][NextParts]_vars

(***************************************************************************)
(* The registry: oracles are created until the id sequence overflows,      *)
(* voted for and pushed to at the moment of their creation.                *)
(***************************************************************************)
NextRegistry ==
    \/ \E table \in DOMAIN tables : Vote(table, Accounts)
    \/ \E who \in Accounts, source_limit \in 0..1, aggregate_period \in {0, Period} :
            CreateOracle(who, source_limit, Period, aggregate_period, <<1>>)
    \/ \E who \in Accounts, oracle_id \in DOMAIN oracles, values \in PushInputs :
            /\ Len(values) = Len(oracles[oracle_id].names)
            /\ Push(who, oracle_id, values) /\ UNCHANGED history

SpecRegistry == Init /\ [][NextRegistry]_vars

(***************************************************************************)
(* The aggregator on its own: one Oracle of source_limit NumAccounts, two  *)
(* Aggregate moments and one Calculate moment a window, driven through its *)
(* public operations as the tests of oracle.rs drive it: the sources are   *)
(* all accounts, a push carries one value for every slot.                  *)
(***************************************************************************)
\* the clock runs to MaxNowOracle; add_assets stops at MaxAssets slots
MaxNowOracle == 3
MaxAssets == 2

\* the outcome of an operation of the Oracle
Outcome(op, value_id, res) ==
    [NoResult EXCEPT !.op = op, !.slot = value_id,
                     !.err = res.err[1], !.internal = res.err,
                     !.value = IF res.ok THEN Some(res.val) ELSE None]

OracleNew(assets_name) ==
    /\ oracles = <<>>
    /\ now <= MaxBegin
    /\ oracles' = (0 :> Oracle_new("test", 1,
                                   PeriodHandler_new(now, Period + 1, 1)[1],
                                   NumAccounts, assets_name))
    /\ result' = [NoResult EXCEPT !.op = "new"]
    /\ UNCHANGED <<now, tables, next_oracle_id, history>>

UpdateSources(srcs) ==
    /\ 0 \in DOMAIN oracles
    /\ LET r == update_sources(oracles[0], srcs)
       IN  /\ oracles' = [oracles EXCEPT ![0] = r.oracle]
           /\ result' = [NoResult EXCEPT !.op = "update_sources", !.err = r.res.err[1],
                                         !.internal = r.res.err]
    /\ UNCHANGED <<now, tables, next_oracle_id, history>>

PushValues(source, new_values) ==
    /\ 0 \in DOMAIN oracles
    /\ LET r == push_values(oracles[0], source, now, new_values)
       IN  /\ oracles' = [oracles EXCEPT ![0] = r.oracle]
           /\ result' = [NoResult EXCEPT !.op = "push_values", !.who = source,
                                         !.len = Len(new_values), !.err = r.res.err[1],
                                         !.internal = r.res.err]
    /\ UNCHANGED <<now, tables, next_oracle_id, history>>

CalculateValue(value_id) ==
    /\ 0 \in DOMAIN oracles
    /\ LET r == calculate_value(oracles[0], value_id, now)
       IN  /\ oracles' = [oracles EXCEPT ![0] = r.oracle]
           /\ result' = Outcome("calculate_value", value_id, r.res)
    /\ UNCHANGED <<now, tables, next_oracle_id, history>>

\* pull_value takes &mut self and assigns nothing
PullValue(value_id) ==
    /\ 0 \in DOMAIN oracles
    /\ result' = Outcome("pull_value", value_id, pull_value(oracles[0], value_id))
    /\ UNCHANGED <<now, tables, oracles, next_oracle_id, history>>

AddAssets(name) ==
    /\ 0 \in DOMAIN oracles
    /\ get_values_count(oracles[0]) < MaxAssets
    /\ oracles' = [oracles EXCEPT ![0] = add_assets(@, name)]
    /\ result' = [NoResult EXCEPT !.op = "add_assets"]
    /\ UNCHANGED <<now, tables, next_oracle_id, history>>

\* is_allow_calculate(value_id, t) at the moment t of the clock or at an
\* earlier one: a moment in a window before the one of last_changed reaches
\* unreachable!()
IsAllowCalculate(value_id, t) ==
    /\ 0 \in DOMAIN oracles
    /\ t >= oracles[0].period_handler.begin
    /\ LET o == oracles[0]
           c == is_value_id_correct(o, value_id)
           panics == /\ c.ok
                     /\ is_can_calculate_unreachable(o.period_handler,
                                        o.values[value_id + 1].last_changed, t)
           res == IF panics THEN Err(<<"panic">>) ELSE is_allow_calculate(o, value_id, t)
       IN  result' = [Outcome("is_allow_calculate", value_id, res) EXCEPT
                            !.moment = t,
                            !.last = IF c.ok THEN o.values[value_id + 1].last_changed
                                     ELSE None]
    /\ UNCHANGED <<now, tables, oracles, next_oracle_id, history>>

NextOracle ==
    \/ Tick(MaxNowOracle)
    \/ \E n \in 1..MaxSlots : OracleNew([i \in 1..n |-> i])
    \/ UpdateSources(Accounts)
    \/ \E source \in Accounts, value \in Values :
            /\ 0 \in DOMAIN oracles
            /\ PushValues(source, [i \in 1..get_values_count(oracles[0]) |-> value])
    \/ \E value_id \in 0..MaxAssets : CalculateValue(value_id)
    \/ \E value_id \in 0..MaxAssets : PullValue(value_id)
    \/ AddAssets(MaxAssets)
    \/ \E value_id \in 0..MaxAssets, t \in {0, now} : IsAllowCalculate(value_id, t)

SpecOracle == Init /\ [][NextOracle]_vars

(***************************************************************************)
(* The roster of the aggregator: one Oracle of source_limit 1, one         *)
(* Aggregate and Period - 1 Calculate moments a window, whose sources are  *)
(* updated to every set of accounts and who is pushed to by every account  *)
(* with every list of values.                                              *)
(***************************************************************************)
MaxNowRoster == 3

RosterNew(assets_name) ==
    /\ oracles = <<>>
    /\ now <= MaxBegin
    /\ oracles' = (0 :> Oracle_new("test", 1,
                                   PeriodHandler_new(now, Period, 0)[1],
                                   1, assets_name))
    /\ result' = [NoResult EXCEPT !.op = "new"]
    /\ UNCHANGED <<now, tables, next_oracle_id, history>>

NextRoster ==
    \/ Tick(MaxNowRoster)
    \/ \E n \in 1..MaxSlots : RosterNew([i \in 1..n |-> i])
    \/ \E srcs \in SUBSET Accounts : UpdateSources(srcs)
    \/ \E source \in Accounts, new_values \in PushInputs : PushValues(source, new_values)
    \/ \E value_id \in 0..MaxSlots : CalculateValue(value_id)

SpecRoster == Init /\ [][NextRoster]_vars

(***************************************************************************)
(* The clock: one oracle created at any moment of the clock, which becomes *)
(* the begin of its handler, its head voted to all accounts, pushed to and *)
(* calculated at every later moment.                                       *)
(***************************************************************************)
MaxNowClock == 5

\* create_oracle at any moment of the clock
CreateOracleAt(who, source_limit, period, aggregate_period, values_names) ==
    LET handler == PeriodHandler_new(now, period, aggregate_period)
        table == Len(tables) + 1
        id == get_next_oracle_id(next_oracle_id)
        res == [NoResult EXCEPT !.op = "create_oracle", !.period = period,
                                !.aggregate_part = aggregate_period]
    IN  /\ Len(tables) < MaxTables
        /\ IF handler = None
           THEN /\ result' = [res EXCEPT !.err = "WrongPeriods"]
                /\ UNCHANGED <<tables, oracles, next_oracle_id>>
           ELSE /\ tables' = Append(tables, {})
                /\ next_oracle_id' = id.next
                /\ IF ~id.res.ok
                   THEN /\ result' = [res EXCEPT !.err = "OracleIdOverflow"]
                        /\ UNCHANGED oracles
                   ELSE /\ result' = [res EXCEPT !.id = id.res.val]
                        /\ oracles' = (id.res.val :> Oracle_new("test", table, handler[1],
                                                      source_limit, values_names))
                                        @@ oracles
        /\ UNCHANGED <<now, history>>

NextClock ==
    \/ Tick(MaxNowClock)
    \/ \E table \in DOMAIN tables : Vote(table, Accounts)
    \/ \E who \in Accounts :
            /\ next_oracle_id < MaxOracles
            /\ CreateOracleAt(who, NumAccounts, Period, 0, <<1>>)
    \/ \E who \in Accounts, oracle_id \in DOMAIN oracles, values \in PushInputs :
            /\ Len(values) = Len(oracles[oracle_id].names)
            /\ Push(who, oracle_id, values) /\ UNCHANGED history
    \/ \E oracle_id \in DOMAIN oracles, value_id \in 0..MaxSlots :
            Calculate(oracle_id, value_id) /\ UNCHANGED history

SpecClock == Init /\ [][NextClock]_vars

(***************************************************************************)
(* The claims.  window and part are the handler's window number and part.  *)
(***************************************************************************)
\* the oracle and the handler the last dispatch was about
Target == oracles[result.id]
Handler == Target.period_handler

window(h, t) == (t - h.begin) \div h.period

\* the last step was a successful calculate
CalculateOk == result.op = "calculate" /\ result.err = "Ok"

\* the elements of a set, one after the other
RECURSIVE SeqOfSet(_)
SeqOfSet(S) ==
    IF S = {} THEN <<>>
    ELSE LET x == CHOOSE y \in S : TRUE IN <<x>> \o SeqOfSet(S \ {x})

\* the candidate values of a slot: the non-empty values of the roster's
\* buffers in the Calculate part, of prev_period_source in the Aggregate part
Candidates(o, slot, t) ==
    LET inSources == {r \in DOMAIN o.sources : o.sources[r][slot + 1].value # None}
        inPrev == {r \in DOMAIN o.prev_period_source :
                        /\ o.prev_period_source[r][slot + 1] # None
                        /\ o.prev_period_source[r][slot + 1][1].value # None}
        rs == SeqOfSet(IF get_part(o.period_handler, t) = "Calculate" THEN inSources ELSE inPrev)
    IN  [i \in 1..Len(rs) |->
            IF get_part(o.period_handler, t) = "Calculate"
            THEN o.sources[rs[i]][slot + 1].value[1]
            ELSE o.prev_period_source[rs[i]][slot + 1][1].value[1]]

\* the k-th smallest element of a list of numbers
Kth(c, k) ==
    CHOOSE v \in {c[i] : i \in 1..Len(c)} :
        /\ Cardinality({i \in 1..Len(c) : c[i] < v}) < k
        /\ Cardinality({i \in 1..Len(c) : c[i] <= v}) >= k

\* the median of a list of two or more numbers, in unbounded arithmetic
MathMedian(c) ==
    LET n == Len(c)
    IN  IF n % 2 = 1 THEN Kth(c, (n \div 2) + 1)
        ELSE (Kth(c, n \div 2) + Kth(c, (n \div 2) + 1)) \div 2

\* C1 (as claimed): between two successive successful calculates of a slot
\* the window number of now strictly increases, so that no slot is
\* published twice in one window.
C1_OnePublicationPerWindow ==
    [][(CalculateOk' /\ result'.last # None)
        => window(Handler', now') > window(Handler', result'.last[1])]_vars

\* C1 (amended): between two successive successful calculates of a slot
\* either the window number of now strictly increases, or both fall into one
\* window, the first in its Aggregate part (a carry-over publication) and the
\* second in its Calculate part.
C1_OnePublicationPerPart ==
    [][(CalculateOk' /\ result'.last # None)
        => \/ window(Handler', now') > window(Handler', result'.last[1])
           \/ /\ window(Handler', now') = window(Handler', result'.last[1])
              /\ get_part(Handler', result'.last[1]) = "Aggregate"
              /\ get_part(Handler', now') = "Calculate"]_vars

\* a slot published in the Aggregate part of a window was published again in
\* the Calculate part of the same window
C1_TwiceInOneWindow ==
    /\ CalculateOk
    /\ result.last # None
    /\ window(Handler, now) = window(Handler, result.last[1])

\* C2: a successful calculate returns the median of its candidate values: the
\* middle one of an odd number of them, the floor of the mean of the two
\* middle ones of an even number, whatever the order of the pushes.
C2_MedianCorrectness ==
    [][CalculateOk'
        => LET c == Candidates(oracles[result'.id], result'.slot, now)
           IN  Len(c) >= 2 => result'.value = Some(MathMedian(c))]_vars

\* the calculate of this step meets the preconditions of calculate other
\* than the quorum of candidates: a valid slot, may_calculate, a roster of
\* source_limit or more, a push landed in the current window
QuorumDecides ==
    /\ result'.op = "calculate"
    /\ LET o == oracles[result'.id]
           slot == result'.slot
       IN  /\ slot < Len(o.values)
           /\ is_can_calculate(o.period_handler, o.values[slot + 1].last_changed, now)
           /\ Cardinality(DOMAIN oracles'[result'.id].sources) >= o.source_limit
           /\ o.last_push_period = Some(window(o.period_handler, now))

\* with source_limit - 1 candidates calculate fails with
\* FewPushedValue(source_limit, actual) and publishes nothing
BelowQuorumFails ==
    LET o == oracles[result'.id]
        n == Len(Candidates(o, result'.slot, now))
    IN  n = o.source_limit - 1
            => /\ result'.internal = <<"FewPushedValue", o.source_limit, n>>
               /\ oracles'[result'.id].values = o.values

\* C3 (as claimed): for every source_limit, a calculate whose other
\* preconditions hold succeeds with exactly source_limit candidates and fails
\* with FewPushedValue(source_limit, actual), values unchanged, with
\* source_limit - 1 candidates.
C3_QuorumBoundary ==
    [][QuorumDecides
        => LET o == oracles[result'.id]
               n == Len(Candidates(o, result'.slot, now))
           IN  /\ n = o.source_limit => result'.err = "Ok"
               /\ BelowQuorumFails]_vars

\* C3 (amended): the same for every source_limit of 2 or more; with a
\* source_limit of 0 or 1 only the failure with source_limit - 1 candidates
\* holds (the median of fewer than two candidates is a CalculationError).
C3_QuorumBoundaryFromTwo ==
    [][QuorumDecides
        => LET o == oracles[result'.id]
               n == Len(Candidates(o, result'.slot, now))
           IN  /\ (n = o.source_limit /\ o.source_limit >= 2) => result'.err = "Ok"
               /\ BelowQuorumFails]_vars

\* a calculate succeeded on exactly source_limit candidates
C3_ExactQuorum ==
    /\ CalculateOk
    /\ Len(Candidates(Target, result.slot, now)) = Target.source_limit

\* the history of the windows of the oracle the last dispatch was about
Past == history[result.id]

\* the observations of a slot that landed in a window, one per reporter
Landed(w, slot) ==
    LET rs == SeqOfSet({r \in DOMAIN w.obs : w.obs[r][slot + 1] # None})
    IN  [i \in 1..Len(rs) |-> w.obs[rs[i]][slot + 1][1]]

\* the last step was the first calculate of a slot in the Aggregate part of
\* a window W with a push, after a window W-1 in which source_limit or more
\* reporters of the roster pushed the slot
Recoverable ==
    /\ result.op = "calculate"
    /\ get_part(Handler, now) = "Aggregate"
    /\ result.last # None => window(Handler, result.last[1]) < window(Handler, now)
    /\ Past.win = window(Handler, now)
    /\ Past.cur.pushed
    /\ Len(Landed(Past.prev, result.slot)) >= Target.source_limit

\* the last step published the median of the observations of window W-1
PublishedPrevious ==
    /\ result.err = "Ok"
    /\ result.value = Some(MathMedian(Landed(Past.prev, result.slot)))

\* C4: after a window W-1 in which source_limit or more reporters pushed a
\* slot and no calculate was dispatched, and a push in window W, a calculate
\* of the slot in the Aggregate part of W succeeds and returns the median of
\* the values pushed in window W-1, whatever was pushed in window W.
C4_WindowCarryOver ==
    (Recoverable /\ ~Past.prev.calc) => PublishedPrevious

\* C5: after a window N in which source_limit or more reporters pushed a
\* slot and no calculate of the slot succeeded in its Calculate part, and a
\* push in window N+1, a calculate of the slot in the Aggregate part of N+1
\* succeeds and publishes the median of the observations of window N,
\* whatever pushes and calculates happened before.
C5_MissedWindowRecoverable ==
    (Recoverable /\ result.slot \notin Past.prev.published) => PublishedPrevious

\* C6: a successful calculate in the Aggregate part of window W takes every
\* candidate value from a push of window W-1.
C6_CarryOverFromPreviousWindow ==
    [][(CalculateOk' /\ get_part(Handler', now) = "Aggregate")
        => LET o == oracles[result'.id]
               slot == result'.slot
           IN  \A r \in DOMAIN o.prev_period_source :
                  LET kept == o.prev_period_source[r][slot + 1]
                  IN  (kept # None /\ kept[1].value # None)
                        => window(Handler', kept[1].last_changed[1])
                                = window(Handler', now) - 1]_vars

\* the step is a push, dispatched in the given part of a window
PushIn(part) ==
    /\ result'.op = "push"
    /\ get_part(oracles[result'.id].period_handler, now) = part

\* the head of the reputation table of the oracle the step is about
TableHead == tables[oracles[result'.id].table]

\* after the step the roster is the head, and the reporters new in it, other
\* than the caller, have clean buffers
RosterIsHead ==
    LET o == oracles[result'.id]
        o2 == oracles'[result'.id]
    IN  /\ DOMAIN o2.sources = TableHead
        /\ \A r \in TableHead \ (DOMAIN o.sources \cup {result'.who}) :
                \A i \in 1..Len(o2.sources[r]) : is_clean(o2.sources[r][i])

\* the push of the step succeeds for a reporter of the head and fails with
\* AccountPermissionDenied for any other account
HeadMayPush ==
    /\ result'.who \in TableHead => result'.err = "Ok"
    /\ result'.who \notin TableHead => result'.err = "AccountPermissionDenied"

\* C7 (as claimed): a push dispatched in the Aggregate part makes the roster
\* equal to the head R_new of the reputation table; the reporters outside
\* R_new lose their buffers and their pushes fail with
\* AccountPermissionDenied, the reporters new in R_new start with clean
\* buffers and their pushes succeed.
C7_RosterRefresh ==
    [][PushIn("Aggregate") => (RosterIsHead /\ HeadMayPush)]_vars

\* C7 (amended): the same when R_new has source_limit reporters or more;
\* with a smaller R_new every push fails with NotEnoughSources.
C7_RosterRefreshOfQuorum ==
    [][PushIn("Aggregate")
        => IF Cardinality(TableHead) >= oracles[result'.id].source_limit
           THEN RosterIsHead /\ HeadMayPush
           ELSE result'.err = "NotEnoughSources"]_vars

\* a reporter of the old roster, voted out of the head, was refused in the
\* Aggregate part of a later window
C7_VotedOutRefused ==
    /\ result.op = "push"
    /\ result.err = "AccountPermissionDenied"
    /\ result.member
    /\ DOMAIN Target.sources # {}
    /\ window(Handler, now) >= 1

\* C8: a push of a list shorter or longer than slot_count() fails with
\* WrongValuesCount(expected, actual) and writes nothing into the buffer of
\* the caller (here for a caller of the head, in the Aggregate part, whose
\* push of a list of the right length is accepted).
C8_StrictObservationCount ==
    [][(/\ PushIn("Aggregate")
        /\ result'.who \in TableHead
        /\ Cardinality(TableHead) >= oracles[result'.id].source_limit
        /\ result'.len # get_values_count(oracles[result'.id]))
        => /\ result'.internal
                = <<"WrongValuesCount", get_values_count(oracles[result'.id]), result'.len>>
           /\ result'.who \in DOMAIN oracles[result'.id].sources
                => oracles'[result'.id].sources[result'.who]
                        = oracles[result'.id].sources[result'.who]]_vars

\* the push of the step leaves the roster, the buffers, last_push_period and
\* prev_period_source as they were
PushChangedNothing ==
    LET o == oracles[result'.id]
        o2 == oracles'[result'.id]
    IN  /\ o2.sources = o.sources
        /\ o2.last_push_period = o.last_push_period
        /\ o2.prev_period_source = o.prev_period_source

\* a push at the first moment of a window by a reporter of a roster that is
\* the head and has source_limit reporters or more succeeds
FirstMomentPush ==
    LET o == oracles[result'.id]
    IN  (/\ PushIn("Aggregate")
         /\ get_rest_of_period(o.period_handler, now) = 0
         /\ result'.who \in DOMAIN o.sources
         /\ DOMAIN o.sources = TableHead
         /\ is_sources_enough(o))
            => result'.err = "Ok"

C10_DispatchAtomicity ==
    [][(result'.op \in {"push", "calculate", "create_oracle"} /\ result'.err # "Ok")
        => (oracles' = oracles /\ next_oracle_id' = next_oracle_id)]_vars

\* the last step was a query of the handler at moment now
Queried == result.op = "is_can_calculate"

\* the offset of a moment inside its window
offset(h, t) == (t - h.begin) % h.period

\* C15: part(now) is Aggregate exactly when (now - begin) mod period is less
\* than aggregate_part, so that a window has aggregate_part Aggregate moments.
C15_AggregateExtent ==
    Queried => ((result.internal = <<"Aggregate">>)
                    <=> (offset(Handler, now) < Handler.aggregate_part))

\* may_calculate(last, now) as the rule states it
MayCalculate(h, last, t) ==
    IF last = None
    THEN window(h, t) > 0 \/ get_part(h, t) = "Calculate"
    ELSE IF window(h, t) = window(h, last[1])
    THEN get_part(h, last[1]) = "Aggregate" /\ get_part(h, t) = "Calculate"
    ELSE ~(/\ get_part(h, last[1]) = "Calculate"
           /\ get_part(h, t) = "Aggregate"
           /\ window(h, t) = window(h, last[1]) + 1)

\* C19: for every last <= now, is_can_calculate(last, now) is the rule: with
\* no publication, true iff window(now) > 0 or part(now) is Calculate; with a
\* publication in the same window, true iff it was in the Aggregate part and
\* now is in the Calculate part; with one in an earlier window, true unless
\* it was in the Calculate part of the window before and now is in the
\* Aggregate part.  It is false for (None, now) in the Aggregate part of
\* window 0 and for (Some(now), now).
C19_MayCalculateRule ==
    (Queried /\ (result.last = None \/ result.last[1] <= now))
        => /\ result.value = Some(MayCalculate(Handler, result.last, now))
           /\ (/\ result.last = None
               /\ window(Handler, now) = 0
               /\ result.internal = <<"Aggregate">>) => result.value = Some(FALSE)
           /\ result.last = Some(now) => result.value = Some(FALSE)

\* a slot published in the Calculate part of a window was refused in the
\* Aggregate part of the next one
C19_FreshSlotRefused ==
    /\ Queried
    /\ result.last # None
    /\ window(Handler, now) = window(Handler, result.last[1]) + 1
    /\ get_part(Handler, result.last[1]) = "Calculate"
    /\ get_part(Handler, now) = "Aggregate"
    /\ result.value = Some(FALSE)

\* the step is a calculate of a valid slot of an oracle no push has reached
CalculateBeforePush ==
    /\ result'.op = "calculate"
    /\ result'.slot < get_values_count(oracles[result'.id])
    /\ oracles[result'.id].last_push_period = None

\* C11 (as claimed): a calculate of a valid slot after the creation of the
\* oracle and before any push fails with EmptyPushedValueInPeriod and with
\* no other error.
C11_CalculateBeforePush ==
    [][CalculateBeforePush
        => result'.internal = <<"EmptyPushedValueInPeriod">>]_vars

\* C11 (amended): such a calculate never succeeds.  It fails with
\* NotEnoughSources when the roster, refreshed from the head in the
\* Aggregate part, has fewer than source_limit reporters; with
\* NotCalculateTime in the Aggregate part of window 0; and with
\* EmptyPushedValueInPeriod otherwise.
C11_CalculateBeforePushFails ==
    [][CalculateBeforePush
        => LET o == oracles[result'.id]
               h == o.period_handler
               refreshed == get_part(h, now) = "Aggregate"
               roster == IF refreshed THEN TableHead ELSE DOMAIN o.sources
           IN  IF refreshed /\ Cardinality(TableHead) < o.source_limit
               THEN result'.err = "NotEnoughSources"
               ELSE IF window(h, now) = 0 /\ refreshed
               THEN result'.err = "NotCalculateTime"
               ELSE IF Cardinality(roster) < o.source_limit
               THEN result'.err = "NotEnoughSources"
               ELSE result'.internal = <<"EmptyPushedValueInPeriod">>]_vars

\* a calculate failed with EmptyPushedValueInPeriod on an oracle no push has
\* reached
C11_EmptyPeriod ==
    /\ result.op = "calculate"
    /\ result.internal = <<"EmptyPushedValueInPeriod">>
    /\ Target.last_push_period = None

\* C16: is_can_aggregate(now) is true at the offsets 0..aggregate_part of a
\* window, the boundary included, and false at the offsets
\* aggregate_part+1..period-1; a push to an oracle with a roster is refused
\* with NotAggregationTime exactly at the latter offsets, and a push by a
\* reporter of the head is accepted again at offset 0 of the next window.
C16_InclusiveAggregateBoundary ==
    [][result'.op = "push"
        => LET o == oracles[result'.id]
               h == o.period_handler
               late == offset(h, now) > h.aggregate_part
           IN  /\ is_can_aggregate(h, now) <=> ~late
               /\ result'.err = "NotAggregationTime" => late
               /\ (late /\ ~is_sources_empty(o)) => result'.err = "NotAggregationTime"
               /\ (/\ offset(h, now) = 0
                   /\ result'.who \in TableHead
                   /\ Cardinality(TableHead) >= o.source_limit) => result'.err = "Ok"]_vars

\* a push was accepted at the offset aggregate_part of a window whose
\* aggregate part is not 0
C16_AcceptedAtBoundary ==
    /\ result.op = "push"
    /\ result.err = "Ok"
    /\ Handler.aggregate_part > 0
    /\ offset(Handler, now) = Handler.aggregate_part

\* C17: PeriodHandler::new(now, P, A) fails iff P <= A, and create_oracle
\* given such periods fails with WrongPeriods, allocates no oracle id,
\* creates no reputation table and inserts no oracle.
C17_WrongPeriods ==
    [][result'.op = "create_oracle"
        => LET P == result'.period
               A == result'.aggregate_part
           IN  /\ (PeriodHandler_new(now, P, A) = None) <=> (P <= A)
               /\ (result'.err = "WrongPeriods") <=> (P <= A)
               /\ P <= A => /\ next_oracle_id' = next_oracle_id
                            /\ tables' = tables
                            /\ oracles' = oracles]_vars

\* create_oracle refused a period equal to its aggregate part
C17_EqualPeriodsRefused ==
    /\ result.op = "create_oracle"
    /\ result.err = "WrongPeriods"
    /\ result.period > 0
    /\ result.period = result.aggregate_part

\* C18: the handler of every oracle of the registry has
\* period > aggregate_part > 0, and its begin never changes.
C18_HandlerInvariant ==
    [][\A id \in DOMAIN oracles' :
            LET h == oracles'[id].period_handler
            IN  /\ h.period > h.aggregate_part
                /\ h.aggregate_part > 0
                /\ id \in DOMAIN oracles => h.begin = oracles[id].period_handler.begin]_vars

\* C13: the successful create_oracle dispatches receive the ids next_id,
\* next_id + 1, ..., each one new, and leave every existing oracle as it
\* was; when the increment would overflow, create_oracle fails with
\* OracleIdOverflow and neither next_oracle_id nor any oracle changes.
C13_RegistryIds ==
    [][(result'.op = "create_oracle" /\ result'.err # "WrongPeriods")
        => /\ IF next_oracle_id + 1 > MaxOracleId
              THEN /\ result'.err = "OracleIdOverflow"
                   /\ next_oracle_id' = next_oracle_id
                   /\ oracles' = oracles
              ELSE /\ result'.err = "Ok"
                   /\ result'.id = next_oracle_id
                   /\ next_oracle_id' = next_oracle_id + 1
                   /\ result'.id \notin DOMAIN oracles
                   /\ DOMAIN oracles' = DOMAIN oracles \cup {result'.id}
                   /\ \A id \in DOMAIN oracles : oracles'[id] = oracles[id]
           /\ DOMAIN oracles' = 0..(next_oracle_id' - 1)]_vars

\* create_oracle failed with OracleIdOverflow in a registry of MaxOracleId
\* oracles, one of them with reporters
C13_OverflowKeepsRegistry ==
    /\ result.op = "create_oracle"
    /\ result.err = "OracleIdOverflow"
    /\ Cardinality(DOMAIN oracles) = MaxOracleId
    /\ \E id \in DOMAIN oracles : ~is_sources_empty(oracles[id])

\* what pull_value of a slot must return from the stored values: the pair
\* of the slot, UncalculatedValue for a clean slot, WrongValueId beyond the
\* slots
Reads(o, slot, res) ==
    IF slot >= get_values_count(o)
    THEN res.internal = <<"WrongValueId", slot>>
    ELSE IF is_clean(o.values[slot + 1])
    THEN res.internal = <<"UncalculatedValue", slot>>
    ELSE /\ res.err = "Ok"
         /\ res.value = Some(<<o.values[slot + 1].value[1],
                               o.values[slot + 1].last_changed[1]>>)

\* C12: pull_value of a slot returns the pair (median, now) stored by the
\* last successful calculate of the slot, UncalculatedValue if there was
\* none, WrongValueId for a slot >= slot_count(), and changes nothing: a new
\* slot is clean, a successful calculate_value stores its value and moment in
\* its slot, no other step changes a stored value, and pull_value returns
\* what is stored.
C12_ReadReturnsLastPublication ==
    [][/\ result'.op = "new"
            => \A i \in 1..Len(oracles'[0].values) : is_clean(oracles'[0].values[i])
       /\ (0 \in DOMAIN oracles /\ 0 \in DOMAIN oracles')
            => LET o == oracles[0]
                   o2 == oracles'[0]
                   published == result'.op = "calculate_value" /\ result'.err = "Ok"
               IN  /\ result'.op = "pull_value"
                        => (oracles' = oracles /\ Reads(o, result'.slot, result'))
                   /\ published
                        => o2.values[result'.slot + 1]
                                = [value |-> result'.value, last_changed |-> Some(now)]
                   /\ Len(o2.values) >= Len(o.values)
                   /\ \A i \in 1..Len(o2.values) :
                        (published /\ i = result'.slot + 1)
                            \/ IF i <= Len(o.values)
                               THEN o2.values[i] = o.values[i]
                               ELSE is_clean(o2.values[i])]_vars

\* pull_value returned the pair of a slot published at an earlier moment
C12_ReadAfterPublication ==
    /\ result.op = "pull_value"
    /\ result.err = "Ok"
    /\ result.value # None
    /\ result.value[1][2] < now

\* C14: in every state the oracle's public operations reach, every reporter
\* of the roster has a buffer of slot_count() entries, and values has
\* slot_count() entries.
C14_BufferShape ==
    \A id \in DOMAIN oracles :
        /\ Len(oracles[id].values) = get_values_count(oracles[id])
        /\ \A s \in DOMAIN oracles[id].sources :
                Len(oracles[id].sources[s]) = get_values_count(oracles[id])

\* C20: is_allow_calculate (and so calculate) at a moment that lies in a
\* window before the one of the slot's last_changed returns CalculationError;
\* it neither panics nor succeeds, and changes nothing.
C20_NonMonotonicTimeReported ==
    (/\ result.op = "is_allow_calculate"
     /\ result.last # None
     /\ window(Handler, result.moment) < window(Handler, result.last[1]))
        => result.internal = <<"CalculationError">>

\* every entry of the buffer is clean
AllClean(buffer) == \A i \in 1..Len(buffer) : is_clean(buffer[i])

\* C21: after update_sources(R), Ok or FewSources, the keys of the roster are
\* the set of R, a reporter that was in the roster keeps its buffer, a new
\* reporter has a buffer of get_values_count() clean entries and nothing else
\* of the oracle changes; a second update_sources(R) changes nothing.
C21_UpdateSourcesPostcondition ==
    [][\A srcs \in SUBSET Accounts :
        UpdateSources(srcs) =>
            LET o == oracles[0]
                o2 == oracles'[0]
            IN  /\ result'.err \in {"Ok", "FewSources"}
                /\ DOMAIN o2.sources = srcs
                /\ \A r \in srcs \cap DOMAIN o.sources : o2.sources[r] = o.sources[r]
                /\ \A r \in srcs \ DOMAIN o.sources :
                        /\ Len(o2.sources[r]) = get_values_count(o2)
                        /\ AllClean(o2.sources[r])
                /\ o2 = [o EXCEPT !.sources = o2.sources]
                /\ update_sources(o2, srcs).oracle = o2
                /\ (result.op = "update_sources" /\ srcs = DOMAIN o.sources) => o2 = o]_vars

\* update_sources kept the observations of one reporter and gave another a
\* clean buffer
C21_RosterUpdatedWithObservations ==
    /\ result.op = "update_sources"
    /\ 0 \in DOMAIN oracles
    /\ \E r, n \in DOMAIN oracles[0].sources :
            /\ ~AllClean(oracles[0].sources[r])
            /\ AllClean(oracles[0].sources[n])
            /\ Len(oracles[0].sources[n]) = get_values_count(oracles[0])

\* C22: before any set_sources_updated, is_sources_update_needed(t) is true
\* at every Aggregate moment; after set_sources_updated(l) it is false at every
\* t >= l of the window of l and true again at every Aggregate moment of a
\* later window; it is false at every Calculate moment.
C22_SourcesUpdateFlag ==
    result.op = "is_sources_update_needed" =>
        LET h == Handler
            t == result.moment
            last == h.last_sources_update
            aggregate == get_part(h, t) = "Aggregate"
        IN  /\ (last = None /\ aggregate) => result.member
            /\ \A l \in 0..MaxMoment :
                    last = Some(l) =>
                        /\ (t >= l /\ window(h, t) = window(h, l)) => ~result.member
                        /\ (window(h, t) > window(h, l) /\ aggregate) => result.member
            /\ ~aggregate => ~result.member

\* the flag was asked at an Aggregate moment of the window of the mark, after
\* the mark
C22_AskedAfterMark ==
    /\ result.op = "is_sources_update_needed"
    /\ Handler.last_sources_update # None
    /\ result.moment > Handler.last_sources_update[1]
    /\ window(Handler, result.moment) = window(Handler, Handler.last_sources_update[1])
    /\ get_part(Handler, result.moment) = "Aggregate"
    /\ ~result.member

\* C23: update_sources and calculate_value fail with FewSources(required,
\* actual) exactly when the roster has fewer than source_limit sources, and
\* then required is source_limit and actual is the size of the roster.
C23_FewSourcesFaithful ==
    result.op \in {"update_sources", "calculate_value"} =>
        LET o == Target
            actual == Cardinality(DOMAIN o.sources)
        IN  /\ result.err = "FewSources" <=> actual < o.source_limit
            /\ result.err = "FewSources" =>
                    result.internal = <<"FewSources", o.source_limit, actual>>

\* the step is a push or calculate dispatch on the oracle result'.id
Dispatch == result'.op \in {"push", "calculate"} /\ result'.id \in DOMAIN oracles

\* the dispatch of the step updates the sources: Module::push when the roster
\* is empty or the handler asks for it, Module::calculate when the handler
\* asks for it
Refreshes ==
    LET o == oracles[result'.id]
    IN  \/ is_sources_update_needed(o.period_handler, now)
        \/ result'.op = "push" /\ is_sources_empty(o)

\* C24: a successful push or calculate dispatch that updates the sources at
\* now records last_sources_update = Some(now), and a push or calculate in a
\* window where a push already reached the aggregator (and so updated the
\* sources) leaves the keys of the roster as they are, whatever the head of
\* the table is.
C24_OneRefreshPerWindow ==
    [][Dispatch =>
        LET o == oracles[result'.id]
            o2 == oracles'[result'.id]
        IN  /\ (Refreshes /\ result'.err = "Ok")
                    => o2.period_handler.last_sources_update = Some(now)
            /\ o.last_push_period = Some(window(o.period_handler, now))
                    => DOMAIN o2.sources = DOMAIN o.sources]_vars

\* the window-transition rule of push_values(source, now, new_values) from
\* the oracle o to the oracle o2
WindowTransitionRule(o, o2, source, new_values) ==
    LET h == o.period_handler
        current == window(h, now)
        transition == o.last_push_period # None /\ o.last_push_period[1] # current
        stored(s) == \/ is_clean(o.values[s])
                     \/ window(h, o.values[s].last_changed[1]) # o.last_push_period[1]
    IN  /\ transition =>
            /\ DOMAIN o2.prev_period_source = DOMAIN o.sources
            /\ \A r \in DOMAIN o.sources :
                    /\ Len(o2.prev_period_source[r]) = get_values_count(o)
                    /\ \A s \in 1..get_values_count(o) :
                            o2.prev_period_source[r][s] =
                                IF stored(s) THEN Some(o.sources[r][s]) ELSE None
            /\ \A r \in DOMAIN o2.sources \ {source} : AllClean(o2.sources[r])
            /\ o2.last_push_period = Some(current)
        /\ ~transition =>
            /\ o2.prev_period_source = o.prev_period_source
            /\ \A r \in DOMAIN o2.sources \ {source} : o2.sources[r] = o.sources[r]

\* the buffer of the pusher holds the new observations, changed at now, in
\* every slot
PusherHoldsObservations(o, o2, source, new_values) ==
    source \in DOMAIN o.sources =>
        /\ Len(o2.sources[source]) = get_values_count(o)
        /\ \A s \in 1..get_values_count(o) :
                /\ s <= Len(new_values)
                /\ o2.sources[source][s] =
                        [value |-> Some(new_values[s]), last_changed |-> Some(now)]

\* C25: a push at now with last_push_period = Some(prev), prev # window(now),
\* leaves prev_period_source with the keys of the roster before the push and
\* the entry [r][s] Some(sources[r][s]) when values[s] is clean or was changed
\* in another window than prev, None otherwise, the buffers of all reporters
\* but the pusher clean and last_push_period = Some(window(now)); any other
\* push leaves prev_period_source and the buffers of the other reporters as
\* they are; in both cases the buffer of the pusher holds the new
\* observations with last_changed = now in every slot.
C25_WindowTransitionOfPush ==
    [][\A source \in Accounts, new_values \in PushInputs :
        PushValues(source, new_values) =>
            /\ WindowTransitionRule(oracles[0], oracles'[0], source, new_values)
            /\ PusherHoldsObservations(oracles[0], oracles'[0], source, new_values)]_vars

\* C26: push_values by a source that is not in the roster fails with
\* SourcePermissionDenied and leaves last_push_period, prev_period_source and
\* the buffer of every reporter as they were.
C26_DeniedPushHasNoEffect ==
    [][\A source \in Accounts, new_values \in PushInputs :
        (PushValues(source, new_values) /\ source \notin DOMAIN oracles[0].sources) =>
            /\ result'.err = "SourcePermissionDenied"
            /\ oracles'[0].last_push_period = oracles[0].last_push_period
            /\ oracles'[0].prev_period_source = oracles[0].prev_period_source
            /\ oracles'[0].sources = oracles[0].sources]_vars

\* the step is a calculate dispatch of a valid slot that may be calculated,
\* on a roster of source_limit or more sources, in a window without a push
CalculateWithoutPush ==
    /\ result'.op = "calculate"
    /\ result'.id \in DOMAIN oracles
    /\ LET o == oracles[result'.id]
           allow == is_allow_calculate(o, result'.slot, now)
       IN  /\ Cardinality(DOMAIN oracles'[result'.id].sources) >= o.source_limit
           /\ result'.slot < get_values_count(o)
           /\ allow.ok /\ allow.val
           /\ o.last_push_period # Some(window(o.period_handler, now))

C28_PublishedOnlyByCalculate ==
    [][(0 \in DOMAIN oracles /\ 0 \in DOMAIN oracles') =>
        LET values == oracles[0].values
            values2 == oracles'[0].values
            published == result'.op = "calculate_value" /\ result'.err = "Ok"
        IN  /\ Len(values2) >= Len(values)
            /\ \A s \in 1..Len(values) :
                    IF published /\ result'.slot = s - 1
                    THEN values2[s] = [value |-> result'.value, last_changed |-> Some(now)]
                    ELSE values2[s] = values[s]
            /\ published => result'.slot < Len(values) /\ result'.value # None]_vars

\* calculate_value published a slot of an oracle whose other slot holds a
\* value published before
C28_PublishedBesidePublished ==
    /\ result.op = "calculate_value"
    /\ result.err = "Ok"
    /\ Len(Target.values) = 2
    /\ \A s \in 1..2 : ~is_clean(Target.values[s])

\* C29: for the two middle candidates a <= b of an even number of candidates
\* the published value is floor((a + b) / 2) in unbounded arithmetic: the sum
\* a + b of two values of ValueType neither wraps nor aborts the calculation.
C29_NoOverflowInMedian ==
    [][(result'.op = "calculate" /\ result'.id \in DOMAIN oracles)
        => LET c == Candidates(oracles[result'.id], result'.slot, now)
               n == Len(c)
           IN  (CalculateOk' /\ n >= 2 /\ n % 2 = 0)
                    => LET a == Kth(c, n \div 2)
                           b == Kth(c, (n \div 2) + 1)
                       IN  /\ a \in Values /\ b \in Values /\ a <= b
                           /\ result'.value = Some((a + b) \div 2)]_vars

\* the windows of a handler that are looked at
MaxWindow == 2

\* C30: every window n of a handler accepted by PeriodHandler::new has a
\* moment t with window(t) = n and part(t) = Calculate.
C30_EveryWindowHasCalculatePart ==
    0 \in DOMAIN oracles =>
        LET h == oracles[0].period_handler
        IN  \A n \in 0..MaxWindow :
                \E t \in (h.begin + n * h.period)..(h.begin + (n + 1) * h.period - 1) :
                    /\ window(h, t) = n
                    /\ get_part(h, t) = "Calculate"

\* the observation ext was pushed in the window w of the handler h
PushedIn(h, ext, w) ==
    /\ ext.last_changed # None
    /\ window(h, ext.last_changed[1]) = w

\* C31: every entry sources[r][s] that is not clean was changed in the window
\* last_push_period, so a calculate_value that succeeds in the Calculate part
\* of a window takes only observations pushed in that window.
C31_FreshObservations ==
    0 \in DOMAIN oracles =>
        LET o == oracles[0]
            h == o.period_handler
        IN  /\ \A r \in DOMAIN o.sources : \A s \in 1..Len(o.sources[r]) :
                    ~is_clean(o.sources[r][s]) =>
                        /\ o.last_push_period # None
                        /\ PushedIn(h, o.sources[r][s], o.last_push_period[1])
            /\ (/\ result.op = "calculate_value"
                /\ result.err = "Ok"
                /\ get_part(h, now) = "Calculate") =>
                    \A r \in DOMAIN o.sources :
                        o.sources[r][result.slot + 1].value # None =>
                            PushedIn(h, o.sources[r][result.slot + 1], window(h, now))

\* calculate_value succeeded in the Calculate part of a window after a window
\* with pushes
C31_CalculatedAfterEarlierWindow ==
    /\ result.op = "calculate_value"
    /\ result.err = "Ok"
    /\ get_part(Handler, now) = "Calculate"
    /\ window(Handler, now) >= 1
    /\ \E r \in DOMAIN Target.prev_period_source :
            \E s \in 1..Len(Target.prev_period_source[r]) :
                /\ Target.prev_period_source[r][s] # None
                /\ ~is_clean(Target.prev_period_source[r][s][1])

\* C32: under a clock that never decreases and an oracle made by
\* create_oracle, now is never below begin and every published
\* values[s].last_changed lies between begin and now, so that the window of
\* now is never before the window of last_changed (the arm unreachable!() of
\* is_can_calculate) and now - begin does not underflow.
C32_PublicationsNotInTheFuture ==
    \A id \in DOMAIN oracles :
        LET o == oracles[id]
            h == o.period_handler
        IN  /\ now >= h.begin
            /\ \A s \in 1..Len(o.values) :
                    o.values[s].last_changed # None =>
                        /\ o.values[s].last_changed[1] >= h.begin
                        /\ o.values[s].last_changed[1] <= now
                        /\ ~is_can_calculate_unreachable(h, o.values[s].last_changed, now)

\* a calculate was dispatched on an oracle that began after moment 0, in a
\* window after the one of the last publication of the slot
C32_CalculateInLaterWindow ==
    /\ result.op = "calculate"
    /\ result.id \in DOMAIN oracles
    /\ Handler.begin > 0
    /\ result.last # None
    /\ window(Handler, now) > window(Handler, result.last[1])

\* the oracle after push_values(a, ta, va) and then push_values(b, tb, vb)
PushedTwice(o, a, ta, va, b, tb, vb) ==
    push_values(push_values(o, a, ta, va).oracle, b, tb, vb).oracle

\* C33: for two different sources A and B of the roster and two moments of
\* one window, push_values of A followed by push_values of B leaves the oracle
\* (sources, prev_period_source, last_push_period, values) in the state that
\* push_values of B followed by push_values of A leaves it in, also when the
\* first of them is the first push of a new window.
C33_PushesCommute ==
    [][\A A \in Accounts, vA \in PushInputs :
        (PushValues(A, vA) /\ A \in DOMAIN oracles[0].sources) =>
            LET o == oracles[0]
                h == o.period_handler
            IN  \A B \in DOMAIN o.sources \ {A}, vB \in PushInputs, tB \in now..MaxNowRoster :
                    window(h, tB) = window(h, now) =>
                        /\ push_values(oracles'[0], B, tB, vB).oracle
                                = PushedTwice(o, B, tB, vB, A, now, vA)
                        /\ PushedTwice(o, A, now, vA, B, tB, vB)
                                = PushedTwice(o, B, tB, vB, A, now, vA)]_vars

\* a source pushed first in a new window, beside another source of the
\* roster whose observations of the window before were stored
C33_FirstPushOfWindowBesideAnother ==
    /\ result.op = "push_values"
    /\ result.err = "Ok"
    /\ result.len >= 1
    /\ Cardinality(DOMAIN Target.sources) = 2
    /\ Target.last_push_period = Some(window(Handler, now))
    /\ window(Handler, now) >= 1
    /\ \E r \in DOMAIN Target.sources \ {result.who} :
            /\ AllClean(Target.sources[r])
            /\ r \in DOMAIN Target.prev_period_source
            /\ \E s \in 1..Len(Target.prev_period_source[r]) :
                    /\ Target.prev_period_source[r][s] # None
                    /\ ~is_clean(Target.prev_period_source[r][s][1])

=============================================================================
